---- MODULE Spec2Model ----
(***************************************************************************)
(* Model of src/script.js: the CSV load with its row accessor, the filter  *)
(* that builds window.__baseData__, createSvg, the #dimension change       *)
(* handler and updateGroupedChart (dimension filter, d3.rollup with        *)
(* d3.mean, key lists, flatData, bar data join, tooltips, axes, title and  *)
(* legend).                                                                *)
(*                                                                         *)
(* JavaScript values that can sit in the Value field are records           *)
(* [t, num, den]: t = "num" is the number num/den (reduced, den > 0),      *)
(* t = "nan" is NaN, t = "null" is null, t = "undefined" is undefined.     *)
(* IEEE rounding of the division in d3.mean is not modelled: means are     *)
(* exact rationals.                                                        *)
(***************************************************************************)
EXTENDS Integers, Sequences, FiniteSets, TLC

\* ---------------------------------------------------------------- bounds
MaxRows == 2
MaxEvents == 3

\* ------------------------------------------------------------ JS values
Num(n) == [t |-> "num", num |-> n, den |-> 1]
NaN == [t |-> "nan", num |-> 0, den |-> 1]
Null == [t |-> "null", num |-> 0, den |-> 1]
Undefined == [t |-> "undefined", num |-> 0, den |-> 1]

RECURSIVE GCD(_, _)
GCD(a, b) == IF b = 0 THEN a ELSE GCD(b, a % b)

\* sum / count as an exact rational in lowest terms (count > 0, sum >= 0)
Quotient(sum, count) ==
  LET g == GCD(sum, count)
  IN [t |-> "num", num |-> sum \div g, den |-> count \div g]

\* ------------------------------------------------------------- strings
\* the ASCII characters 32..95 and 97..122 in code unit order
AsciiFrom32 == " !\"#$%&'()*+,-./0123456789:;<=>?@ABCDEFGHIJKLMNOPQRSTUVWXYZ[\\]^_"

AsciiFrom97 == "abcdefghijklmnopqrstuvwxyz"

CharAt(s, i) == SubSeq(s, i, i)

\* UTF-16 code unit of a one-character string
CodeUnit(c) ==
  IF \E i \in 1..Len(AsciiFrom32) : CharAt(AsciiFrom32, i) = c
  THEN 31 + (CHOOSE i \in 1..Len(AsciiFrom32) : CharAt(AsciiFrom32, i) = c)
  ELSE 96 + (CHOOSE i \in 1..Len(AsciiFrom97) : CharAt(AsciiFrom97, i) = c)

\* String.prototype.includes
Includes(s, sub) ==
  \E i \in 1..(Len(s) - Len(sub) + 1) : SubSeq(s, i, i + Len(sub) - 1) = sub

\* a < b in the order Array.prototype.sort uses by default (code units)
RECURSIVE StrLessFrom(_, _, _)
StrLessFrom(a, b, i) ==
  IF i > Len(b) THEN FALSE
  ELSE IF i > Len(a) THEN TRUE
  ELSE IF CodeUnit(CharAt(a, i)) < CodeUnit(CharAt(b, i)) THEN TRUE
  ELSE IF CodeUnit(CharAt(a, i)) > CodeUnit(CharAt(b, i)) THEN FALSE
  ELSE StrLessFrom(a, b, i + 1)

StrLess(a, b) == StrLessFrom(a, b, 1)

IsDigit(c) == CodeUnit(c) >= 48 /\ CodeUnit(c) <= 57

IsSpace(c) == c = " "

RECURSIVE TrimLeft(_)
TrimLeft(s) ==
  IF Len(s) > 0 /\ IsSpace(CharAt(s, 1)) THEN TrimLeft(SubSeq(s, 2, Len(s))) ELSE s

RECURSIVE TrimRight(_)
TrimRight(s) ==
  IF Len(s) > 0 /\ IsSpace(CharAt(s, Len(s))) THEN TrimRight(SubSeq(s, 1, Len(s) - 1)) ELSE s

RECURSIVE DigitsValue(_, _)
DigitsValue(s, acc) ==
  IF Len(s) = 0 THEN acc
  ELSE DigitsValue(SubSeq(s, 2, Len(s)), 10 * acc + (CodeUnit(CharAt(s, 1)) - 48))

\* unary plus on a string (ToNumber): surrounding white space is dropped, the
\* empty string is 0, a run of decimal digits is its value, and a string with
\* any other character is NaN.  Signs, fractions, exponents and radix
\* prefixes are outside the literals the model feeds it.
ToNumber(s) ==
  LET u == TrimRight(TrimLeft(s))
  IN IF Len(u) = 0 THEN Num(0)
     ELSE IF \A i \in 1..Len(u) : IsDigit(CharAt(u, i)) THEN Num(DigitsValue(u, 0))
     ELSE NaN

\* --------------------------------------------------------------- input
CognitiveDecline == "Cognitive Decline"

ExcludedTopic == "Talked with health care professional about subjective cognitive decline or memory loss"

OtherTopic == "Functional difficulties associated with subjective cognitive decline or memory loss among older adults"

CsvRow(class, topic, sc1, s1, sc2, s2, dv) ==
  [Class |-> class, Topic |-> topic,
   StratificationCategory1 |-> sc1, Stratification1 |-> s1,
   StratificationCategory2 |-> sc2, Stratification2 |-> s2,
   Data_Value |-> dv]

\* the lines a CSV file of the model can hold
CsvPool ==
  { CsvRow(CognitiveDecline, OtherTopic, "Age Group", "60+", "Sex", "Female", "20"),
    CsvRow(CognitiveDecline, OtherTopic, "Age Group", "60+", "Sex", "Female", "25"),
    CsvRow(CognitiveDecline, OtherTopic, "Age Group", "65 years or older", "Sex", "Male", "20"),
    CsvRow(CognitiveDecline, OtherTopic, "Age Group", "60+", "Sex", "Sex", "10"),
    CsvRow(CognitiveDecline, OtherTopic, "Age Group", "60+", "Sex", "Female", "abc"),
    CsvRow(CognitiveDecline, OtherTopic, "Age Group", "65 years or older", "Sex", "Male", ""),
    CsvRow(CognitiveDecline, OtherTopic, "Age Group", "60+", "Race/Ethnicity", "Hispanic", "30"),
    CsvRow(CognitiveDecline, OtherTopic, "Age Group", "65 years or older", "Ethnicity", "Asian", "10"),
    CsvRow(CognitiveDecline, OtherTopic, "Age Group", "60+", "", "", "10"),
    CsvRow(CognitiveDecline, OtherTopic, "Age Group", "Overall", "Sex", "Female", "10"),
    CsvRow(CognitiveDecline, OtherTopic, "Location", "60+", "Sex", "Male", "10"),
    CsvRow(CognitiveDecline, ExcludedTopic, "Age Group", "60+", "Sex", "Female", "10"),
    CsvRow("Mental Health", OtherTopic, "Age Group", "65 years or older", "Race/Ethnicity", "Hispanic", "20") }

CsvFiles == UNION { [1..n -> CsvPool] : n \in 0..MaxRows }

\* the values the #dimension control can carry in a change event
Modes == {"sex", "ethnicity", "Sex"}

\* ------------------------------------------------------------ load stage
\* the row accessor passed to d3.csv
Accessor(d) ==
  [Class |-> d.Class,
   Topic |-> d.Topic,
   StratCat1 |-> d.StratificationCategory1,
   Strat1 |-> d.Stratification1,
   StratCat2 |-> d.StratificationCategory2,
   Strat2 |-> d.Stratification2,
   Value |-> IF d.Data_Value = "" THEN Null ELSE ToNumber(d.Data_Value)]

ParseCsv(file) == [i \in 1..Len(file) |-> Accessor(file[i])]

\* KeepRow without the test of Strat1
KeepRow_NoOverallTest(d) ==
  /\ d.Class = CognitiveDecline
  /\ d.Topic # ExcludedTopic
  /\ d.Value # Null

\* the predicate of rows.filter that builds base
KeepRow(d) ==
  /\ d.Class = CognitiveDecline
  /\ d.Topic # ExcludedTopic
  /\ d.Strat1 # "Overall"
  /\ d.Value # Null

BaseOf(rows) == SelectSeq(rows, KeepRow)

\* ------------------------------------------------------- dimension view
IsAgeLayer(d) == d.StratCat1 = "Age Group"

\* IsSexRow that also drops the rows labelled "Sex" in Strat2
IsSexRow_NotLabel(d) == d.StratCat2 = "Sex" /\ d.Strat2 # "Sex"

IsSexRow(d) == d.StratCat2 = "Sex"

\* IsEthnicityRow that looks for "Race" only
IsEthnicityRow_RaceOnly(d) ==
  /\ d.StratCat2 # ""
  /\ Includes(d.StratCat2, "Race")

IsEthnicityRow(d) ==
  /\ d.StratCat2 # ""
  /\ (Includes(d.StratCat2, "Race") \/ Includes(d.StratCat2, "Ethnic"))

DimLabel(mode) == IF mode = "sex" THEN "Sex" ELSE "Ethnicity"

DimensionView(base, mode) ==
  LET ageLayer == SelectSeq(base, IsAgeLayer)
  IN IF mode = "sex"
     THEN SelectSeq(ageLayer, IsSexRow)
     ELSE SelectSeq(ageLayer, IsEthnicityRow)

\* ---------------------------------------------------------- aggregation
\* an InternMap is the sequence of its entries [key, value] in insertion order

\* index of the entry of map m with key k, 0 when m has none (Map.get)
MapIndex(m, k) ==
  IF \E i \in 1..Len(m) : m[i].key = k
  THEN CHOOSE i \in 1..Len(m) : m[i].key = k
  ELSE 0

\* one pass of the grouping loop of d3.rollup: push onto the group of key, or
\* set a new group
GroupInsert(groups, key, value) ==
  LET i == MapIndex(groups, key)
  IN IF i # 0
     THEN [groups EXCEPT ![i].value = Append(@, value)]
     ELSE Append(groups, [key |-> key, value |-> <<value>>])

RECURSIVE GroupFrom(_, _, _, _)
GroupFrom(keys, values, i, groups) ==
  IF i > Len(values) THEN groups
  ELSE GroupFrom(keys, values, i + 1, GroupInsert(groups, keys[i], values[i]))

GroupByStrat1(values) ==
  GroupFrom([i \in 1..Len(values) |-> values[i].Strat1], values, 1, <<>>)

GroupByStrat2(values) ==
  GroupFrom([i \in 1..Len(values) |-> values[i].Strat2], values, 1, <<>>)

\* the loop of d3.mean(v, d => d.Value): null, undefined and NaN are skipped
RECURSIVE MeanFrom(_, _, _, _)
MeanFrom(v, i, count, sum) ==
  IF i > Len(v) THEN (IF count # 0 THEN Quotient(sum, count) ELSE Undefined)
  ELSE IF v[i].Value.t = "num"
       THEN MeanFrom(v, i + 1, count + 1, sum + v[i].Value.num)
       ELSE MeanFrom(v, i + 1, count, sum)

Mean(v) == MeanFrom(v, 1, 0, 0)

\* d3.rollup(rows, v => d3.mean(v, d => d.Value), d => d.Strat1, d => d.Strat2)
Rollup(rows) ==
  LET outer == GroupByStrat1(rows)
      Reduce(vs) == LET inner == GroupByStrat2(vs)
                    IN [j \in 1..Len(inner) |->
                          [key |-> inner[j].key, value |-> Mean(inner[j].value)]]
  IN [i \in 1..Len(outer) |-> [key |-> outer[i].key, value |-> Reduce(outer[i].value)]]

MapKeys(m) == [i \in 1..Len(m) |-> m[i].key]

\* Array.from(new Set(xs)): the first occurrence of every value, in order
RECURSIVE Distinct(_)
Distinct(xs) ==
  IF Len(xs) = 0 THEN <<>>
  ELSE LET init == Distinct(SubSeq(xs, 1, Len(xs) - 1))
           last == xs[Len(xs)]
       IN IF \E i \in 1..Len(init) : init[i] = last THEN init ELSE Append(init, last)

\* Array.prototype.sort with the default comparison
SortStrings(xs) == SortSeq(xs, StrLess)

AgeGroupsOf(nested) == SortStrings(MapKeys(nested))

CategoriesOf(rows) == SortStrings(Distinct([i \in 1..Len(rows) |-> rows[i].Strat2]))

\* the two nested for..of loops that flatten nested
RECURSIVE Concat(_)
Concat(ss) == IF Len(ss) = 0 THEN <<>> ELSE ss[1] \o Concat(Tail(ss))

FlatDataOf(nested) ==
  Concat([i \in 1..Len(nested) |->
            [j \in 1..Len(nested[i].value) |->
               [AgeGroup |-> nested[i].key,
                Category |-> nested[i].value[j].key,
                Value |-> nested[i].value[j].value]]])

\* ------------------------------------------------------------ bar data
\* flatData.find(d => d.AgeGroup === age && d.Category === cat), 0 for undefined
FindIndex(flatData, age, cat) ==
  IF \E i \in 1..Len(flatData) : flatData[i].AgeGroup = age /\ flatData[i].Category = cat
  THEN CHOOSE i \in 1..Len(flatData) :
         /\ flatData[i].AgeGroup = age /\ flatData[i].Category = cat
         /\ \A j \in 1..(i - 1) : ~(flatData[j].AgeGroup = age /\ flatData[j].Category = cat)
  ELSE 0

\* BarValue without the default for a pair that was not found
BarValue_NoDefault(flatData, found) ==
  IF found # 0 THEN flatData[found].Value ELSE Undefined

\* found ? found.Value : 0
BarValue(flatData, found) == IF found # 0 THEN flatData[found].Value ELSE Num(0)

\* the datum bound to the rect of (age, cat)
BarDatum(flatData, age, cat) ==
  [AgeGroup |-> age,
   Category |-> cat,
   Value |-> BarValue(flatData, FindIndex(flatData, age, cat))]

\* BarDataOf that binds the flattened series itself to the rects
BarDataOf_FromFlatData(ageGroups, categories, flatData) == flatData

\* the data of all rects, age group by age group
BarDataOf(ageGroups, categories, flatData) ==
  Concat([a \in 1..Len(ageGroups) |->
            [c \in 1..Len(categories) |-> BarDatum(flatData, ageGroups[a], categories[c])]])

\* d.Value.toFixed(2) in the tooltip text throws a TypeError on undefined
TooltipThrows(barData) == \E i \in 1..Len(barData) : barData[i].Value.t = "undefined"

\* ---------------------------------------------------------------- state
VARIABLES
  csv,          \* the lines of the CSV file behind the fetch
  fetch,        \* the d3.csv promise: "pending", "resolved" or "rejected"
  baseDefined,  \* window.__baseData__ has been assigned
  baseData,     \* window.__baseData__
  svgCount,     \* number of svg elements appended to #bar
  listening,    \* the change listener of #dimension is registered
  svg,          \* the children of window.__svg__, in document order
  mode,         \* argument of the last updateGroupedChart call, "none" before
  rows,         \* locals of the last updateGroupedChart call ...
  nested,
  ageGroups,
  categories,
  flatData,
  barData,      \* data bound to the rects by the data join
  threw,        \* the last updateGroupedChart call ended in a TypeError
  rebuilds,     \* number of updateGroupedChart calls so far
  handled,      \* change events that reached the listener
  ignored,      \* change events fired while no listener was registered
  baseAtLoad,   \* history: the value first assigned to window.__baseData__
  tables        \* history: per mode, the set of tables computed for it

vars == <<csv, fetch, baseDefined, baseData, svgCount, listening, svg, mode, rows,
          nested, ageGroups, categories, flatData, barData, threw, rebuilds,
          handled, ignored, baseAtLoad, tables>>

chart == <<svg, mode, rows, nested, ageGroups, categories, flatData, barData,
           threw, rebuilds, tables>>

Init ==
  /\ csv \in CsvFiles
  /\ fetch = "pending"
  /\ baseDefined = FALSE
  /\ baseData = <<>>
  /\ svgCount = 0
  /\ listening = FALSE
  /\ svg = <<>>
  /\ mode = "none"
  /\ rows = <<>>
  /\ nested = <<>>
  /\ ageGroups = <<>>
  /\ categories = <<>>
  /\ flatData = <<>>
  /\ barData = <<>>
  /\ threw = FALSE
  /\ rebuilds = 0
  /\ handled = 0
  /\ ignored = 0
  /\ baseAtLoad = <<>>
  /\ tables = [m \in Modes |-> {}]

\* ------------------------------------------------------------- rendering
Element(tag, run, text) == [tag |-> tag, run |-> run, text |-> text]

\* ClearSvg that removes nothing
ClearSvg_Keep(children) == children

\* svg.selectAll("*").remove()
ClearSvg(children) == <<>>

\* what one run appends to the svg: the bar groups, then, unless the tooltip
\* text threw, both axes, the title and the legend
Drawn(run, label, thrown) ==
  IF thrown
  THEN << Element("bars", run, "") >>
  ELSE << Element("bars", run, ""),
          Element("xAxis", run, ""),
          Element("yAxis", run, ""),
          Element("title", run, label),
          Element("legend", run, "") >>

\* BaseAfterFilter when the view is written back over the cached base
BaseAfterFilter_View(base, view) == view

\* Array.prototype.filter returns a new array: the array behind
\* window.__baseData__ is the same after ageLayer and rows have been built
BaseAfterFilter(base, view) == base

\* InitialMode when the then callback asks for the other view
InitialMode_Ethnicity == "ethnicity"

\* the initial view requested by the then callback
InitialMode == "sex"

\* updateGroupedChart(m) with window.__baseData__ = base
UpdateGroupedChart(m, base) ==
  LET view == DimensionView(base, m)
      agg == Rollup(view)
      ages == AgeGroupsOf(agg)
      cats == CategoriesOf(view)
      flat == FlatDataOf(agg)
      bars == BarDataOf(ages, cats, flat)
      thrown == TooltipThrows(bars)
  IN /\ mode' = m
     /\ rows' = view
     /\ nested' = agg
     /\ ageGroups' = ages
     /\ categories' = cats
     /\ flatData' = flat
     /\ barData' = bars
     /\ threw' = thrown
     /\ rebuilds' = rebuilds + 1
     /\ svg' = ClearSvg(svg) \o Drawn(rebuilds + 1, DimLabel(m), thrown)
     /\ baseData' = BaseAfterFilter(base, view)
     /\ tables' = [tables EXCEPT ![m] = @ \cup {agg}]

\* --------------------------------------------------------------- actions
\* the fetch resolves and the then callback runs: filter, store base,
\* createSvg, register the change listener, draw the initial view
FetchResolve ==
  /\ fetch = "pending"
  /\ fetch' = "resolved"
  /\ baseDefined' = TRUE
  /\ baseAtLoad' = BaseOf(ParseCsv(csv))
  /\ svgCount' = svgCount + 1
  /\ listening' = TRUE
  /\ UpdateGroupedChart(InitialMode, BaseOf(ParseCsv(csv)))
  /\ UNCHANGED <<csv, handled, ignored>>

\* the fetch fails: the promise rejects and no callback is attached to that
FetchReject ==
  /\ fetch = "pending"
  /\ fetch' = "rejected"
  /\ UNCHANGED <<csv, baseDefined, baseData, svgCount, listening, handled, ignored,
                 baseAtLoad>>
  /\ UNCHANGED chart

\* the user picks m in #dimension and the registered listener runs
Change(m) ==
  /\ listening
  /\ handled + ignored < MaxEvents
  /\ handled' = handled + 1
  /\ UpdateGroupedChart(m, baseData)
  /\ UNCHANGED <<csv, fetch, baseDefined, svgCount, listening, ignored, baseAtLoad>>

\* the user picks m in #dimension while no listener is registered
ChangeUnheard(m) ==
  /\ ~listening
  /\ handled + ignored < MaxEvents
  /\ ignored' = ignored + 1
  /\ UNCHANGED <<csv, fetch, baseDefined, baseData, svgCount, listening, handled,
                 baseAtLoad>>
  /\ UNCHANGED chart

Next ==
  \/ FetchResolve
  \/ FetchReject
  \/ \E m \in Modes : Change(m)
  \/ \E m \in Modes : ChangeUnheard(m)

Spec == Init /\ [][Next]_vars

\* ------------------------------------------------------------ properties
Range(seq) == { seq[i] : i \in DOMAIN seq }

\* number of positions of seq that hold r
Count(seq, r) == Cardinality({ i \in DOMAIN seq : seq[i] = r })

\* the key pairs of the Aggregate Table
Pairs(tbl) ==
  UNION { { <<tbl[i].key, tbl[i].value[j].key>> : j \in DOMAIN tbl[i].value } : i \in DOMAIN tbl }

\* the means stored under the pair (a, c)
MeansAt(tbl, a, c) ==
  UNION { { tbl[i].value[j].value : j \in { k \in DOMAIN tbl[i].value : tbl[i].value[k].key = c } } :
          i \in { k \in DOMAIN tbl : tbl[k].key = a } }

\* the positions of the triples of (a, c) in a flattened series or bar data
CellsOf(series, a, c) ==
  { i \in DOMAIN series : series[i].AgeGroup = a /\ series[i].Category = c }

RECURSIVE SumOver(_, _)
SumOver(seq, S) ==
  IF S = {} THEN 0
  ELSE LET i == CHOOSE x \in S : TRUE IN seq[i].Value.num + SumOver(seq, S \ {i})

\* C1: the Filtered Base Set stored at load holds exactly the loaded rows with
\* Class "Cognitive Decline", Topic other than the excluded topic, Strat1
\* other than "Overall" and a non-null Value: every such row as often as it
\* was loaded, and no other row.
C1_BaseIsExactlyTheFourPredicates ==
  baseDefined =>
    LET loaded == ParseCsv(csv)
        Passes(d) == /\ d.Class = "Cognitive Decline"
                     /\ d.Topic # ExcludedTopic
                     /\ d.Strat1 # "Overall"
                     /\ d.Value.t # "null"
    IN \A r \in Range(loaded) \cup Range(baseData) :
         Count(baseData, r) = IF Passes(r) THEN Count(loaded, r) ELSE 0

C1_Witness ==
  /\ baseDefined
  /\ Len(csv) = 2
  /\ Len(baseData) = 1

\* C2: a line whose Data_Value is missing or is not a number gets Value null
\* and is not in the Filtered Base Set.
C2_UnparseableIsNullAndDropped ==
  baseDefined =>
    \A i \in DOMAIN csv :
      (csv[i].Data_Value = "" \/ ToNumber(csv[i].Data_Value).t = "nan") =>
        /\ Accessor(csv[i]).Value = Null
        /\ \A j \in DOMAIN baseData : baseData[j] # Accessor(csv[i])

\* C3: the Dimension View is exactly the rows of the Filtered Base Set with
\* StratCat1 "Age Group" and, in mode "sex", StratCat2 "Sex"; in every other
\* mode, a non-empty StratCat2 containing "Race" or "Ethnic".
C3_DimensionViewIsExact ==
  rebuilds > 0 =>
    LET InView(d) ==
          /\ d.StratCat1 = "Age Group"
          /\ IF mode = "sex"
             THEN d.StratCat2 = "Sex"
             ELSE /\ d.StratCat2 # ""
                  /\ (Includes(d.StratCat2, "Race") \/ Includes(d.StratCat2, "Ethnic"))
    IN \A r \in Range(baseData) \cup Range(rows) :
         Count(rows, r) = IF InView(r) THEN Count(baseData, r) ELSE 0

C3_Witness ==
  /\ rebuilds > 1
  /\ mode = "Sex"
  /\ Len(rows) = 1
  /\ Len(baseData) = 2
  /\ rows[1].StratCat2 = "Ethnicity"

\* C4: every pair of the Aggregate Table occurs once, and its mean is the sum
\* of the Value fields of all Dimension View rows of that pair divided by
\* their number.
C4_MeanOfExactlyThePairsRows ==
  rebuilds > 0 =>
    /\ \A i, j \in DOMAIN nested : nested[i].key = nested[j].key => i = j
    /\ \A i \in DOMAIN nested :
         \A j, k \in DOMAIN nested[i].value :
           nested[i].value[j].key = nested[i].value[k].key => j = k
    /\ \A i \in DOMAIN nested :
         \A j \in DOMAIN nested[i].value :
           LET S == { k \in DOMAIN rows : /\ rows[k].Strat1 = nested[i].key
                                          /\ rows[k].Strat2 = nested[i].value[j].key }
               m == nested[i].value[j].value
           IN /\ S # {}
              /\ \A k \in S : rows[k].Value.t = "num"
              /\ m.t = "num"
              /\ m.num * Cardinality(S) = m.den * SumOver(rows, S)

\* C5 as stated: flatData has |ageGroups| x |categories| entries.
C5_FlatDataIsTheFullGrid ==
  rebuilds > 0 => Len(flatData) = Len(ageGroups) * Len(categories)

\* C5 amended: flatData has one entry for each pair of the Aggregate Table,
\* so at most |ageGroups| x |categories|; the data bound to the bars has
\* exactly |ageGroups| x |categories| entries, one for each combination of an
\* age group of ageGroups and a category of categories.
C5_BarDataIsTheFullGrid ==
  rebuilds > 0 =>
    /\ Len(flatData) = Cardinality(Pairs(nested))
    /\ \A p \in Pairs(nested) : Cardinality(CellsOf(flatData, p[1], p[2])) = 1
    /\ Len(flatData) <= Len(ageGroups) * Len(categories)
    /\ Cardinality(Range(ageGroups)) = Len(ageGroups)
    /\ Cardinality(Range(categories)) = Len(categories)
    /\ Len(barData) = Len(ageGroups) * Len(categories)
    /\ \A a \in Range(ageGroups) : \A c \in Range(categories) :
         Cardinality(CellsOf(barData, a, c)) = 1

C5_Witness ==
  /\ rebuilds > 0
  /\ Len(ageGroups) = 2
  /\ Len(categories) = 2
  /\ Len(flatData) = 2
  /\ Len(barData) = 4

\* C6: every age group x category cell has exactly one bar; its Value is the
\* mean of the pair when the Aggregate Table has the pair and the number 0
\* when it has not, and the tooltip text never throws on a bar of an absent
\* pair.
C6_AbsentPairGetsZeroBar ==
  rebuilds > 0 =>
    /\ \A a \in Range(ageGroups) : \A c \in Range(categories) :
         /\ Cardinality(CellsOf(barData, a, c)) = 1
         /\ \A i \in CellsOf(barData, a, c) :
              IF <<a, c>> \in Pairs(nested)
              THEN barData[i].Value \in MeansAt(nested, a, c)
              ELSE barData[i].Value = Num(0)
    /\ threw => \E p \in Pairs(nested) : Undefined \in MeansAt(nested, p[1], p[2])

C6_Witness ==
  /\ rebuilds > 0
  /\ \E i \in DOMAIN barData :
       /\ <<barData[i].AgeGroup, barData[i].Category>> \notin Pairs(nested)
       /\ barData[i].Value = Num(0)
  /\ \E i \in DOMAIN barData :
       /\ <<barData[i].AgeGroup, barData[i].Category>> \in Pairs(nested)
       /\ barData[i].Value = Num(20)

\* C7: no rebuild changes the Filtered Base Set, and every rebuild for a mode
\* computes the Aggregate Table that every earlier rebuild for that mode
\* computed; all modes other than "sex" share one table.
C7_TableDependsOnModeAndBaseOnly ==
  baseDefined =>
    /\ baseData = baseAtLoad
    /\ \A m \in Modes : Cardinality(tables[m]) <= 1
    /\ \A m1, m2 \in Modes \ {"sex"} :
         (tables[m1] # {} /\ tables[m2] # {}) => tables[m1] = tables[m2]
    /\ nested \in tables[mode]

C7_Witness ==
  /\ handled >= 2
  /\ mode = "sex"
  /\ nested # <<>>
  /\ tables["ethnicity"] # {}
  /\ <<>> \notin tables["ethnicity"]

ExampleSexRow ==
  Accessor(CsvRow(CognitiveDecline, OtherTopic, "Age Group", "60+", "Sex", "Sex", "10"))

ExampleFemaleRow ==
  Accessor(CsvRow(CognitiveDecline, OtherTopic, "Age Group", "60+", "Sex", "Female", "20"))

\* C8 as stated: in mode "sex" the Aggregate Table has no category "Sex".
C8_SexLabelRowsExcluded ==
  (rebuilds > 0 /\ mode = "sex") => \A p \in Pairs(nested) : p[2] # "Sex"

\* C8 amended: in mode "sex" a row is in the Aggregate Table exactly when its
\* StratCat1 is "Age Group" and its StratCat2 is "Sex", whatever its Strat2;
\* for the two example rows, both with StratCat2 "Sex", the table is
\* {"60+": {"Sex": 10, "Female": 20}}.
C8_SexModeSelectsOnStratCat2 ==
  (rebuilds > 0 /\ mode = "sex") =>
    /\ Pairs(nested) =
         { <<baseData[i].Strat1, baseData[i].Strat2>> :
             i \in { k \in DOMAIN baseData : /\ baseData[k].StratCat1 = "Age Group"
                                             /\ baseData[k].StratCat2 = "Sex" } }
    /\ baseData = <<ExampleSexRow, ExampleFemaleRow>> =>
         nested = << [key |-> "60+",
                      value |-> << [key |-> "Sex", value |-> Num(10)],
                                   [key |-> "Female", value |-> Num(20)] >>] >>

C8_Witness ==
  /\ rebuilds > 0
  /\ mode = "sex"
  /\ baseData = <<ExampleSexRow, ExampleFemaleRow>>
  /\ <<"60+", "Sex">> \in Pairs(nested)

\* C9: until the fetch has resolved nothing is drawn, no rebuild has run and
\* no change event has reached a listener; a rebuild has run only when the
\* Filtered Base Set and the one SVG exist, and the first rebuild is the
\* "sex" view.
C9_InertUntilResolved ==
  /\ fetch # "resolved" =>
       /\ rebuilds = 0
       /\ handled = 0
       /\ mode = "none"
       /\ svg = <<>>
       /\ barData = <<>>
       /\ nested = <<>>
  /\ rebuilds > 0 => (baseDefined /\ svgCount >= 1 /\ tables["sex"] # {})
  /\ rebuilds = 1 => (mode = "sex" /\ handled = 0)

C9_Witness ==
  /\ fetch = "resolved"
  /\ ignored > 0
  /\ rebuilds = 1
  /\ barData # <<>>

\* C10: once the fetch has resolved there has been one rebuild for the load
\* and one for every change event, the SVG was created once, and every
\* element in it was drawn by the last rebuild: no tag occurs twice and the
\* title names the last selected dimension.
C10_OnlyTheLastChartIsInTheSvg ==
  fetch = "resolved" =>
    /\ rebuilds = 1 + handled
    /\ svgCount = 1
    /\ \A i \in DOMAIN svg : svg[i].run = rebuilds
    /\ \A i, j \in DOMAIN svg : svg[i].tag = svg[j].tag => i = j
    /\ \A i \in DOMAIN svg : svg[i].tag = "title" => svg[i].text = DimLabel(mode)
    /\ \E i \in DOMAIN svg : svg[i].tag = "bars"

C10_Witness ==
  /\ fetch = "resolved"
  /\ handled >= 2
  /\ mode = "ethnicity"
  /\ Len(svg) = 5
  /\ tables["sex"] # {}

====
